---------------------------- MODULE Spec2Model ----------------------------
(***************************************************************************)
(* Model of the VoiceRoom session controller (src/frontend/src/api.js,     *)
(* lines 31-376) and of its owner App (src/frontend/src/App.jsx).          *)
(*                                                                         *)
(* The component is modelled as the facade it is: its actions (disconnect, *)
(* startMic, stopMic) can be invoked while the component instance is       *)
(* mounted; the owner may re-render it with changed props or unmount it.   *)
(* The livekit Room is the environment: it delivers events and settles     *)
(* promises.  Every `await` in the code is a point where other handlers    *)
(* may run, so every async function is one action per segment.             *)
(*                                                                         *)
(* Text is modelled as a sequence of one-character strings.  The body of a *)
(* rag_sources message is modelled after lexing, as a sequence of JSON     *)
(* tokens, and JSONParse is a recursive-descent parser over them.          *)
(***************************************************************************)
EXTENDS Integers, Sequences, FiniteSets, TLC

-----------------------------------------------------------------------------
(* Generic helpers on sequences.                                           *)

Range(s) == { s[i] : i \in 1..Len(s) }

HasPrefix(s, p) == Len(s) >= Len(p) /\ SubSeq(s, 1, Len(p)) = p

DropFirst(s, n) == SubSeq(s, n + 1, Len(s))

\* Array.prototype.slice(-n): the last n elements (all of them when fewer).
SliceLast(s, n) == IF Len(s) <= n THEN s ELSE SubSeq(s, Len(s) - n + 1, Len(s))

-----------------------------------------------------------------------------
(* Transcript lane: api.js 116-122.                                        *)

\* The characters String.prototype.trim strips: the ECMAScript WhiteSpace and
\* LineTerminator code points.  A character of a text is a one-character
\* string; those that cannot be written in a string here (vertical tab,
\* no-break space, byte order mark, line and paragraph separator, the other
\* space separators) are written by the name of their code point.
WhitespaceByName ==
    { "U+000B", "U+00A0", "U+FEFF", "U+2028", "U+2029", "U+1680", "U+2000",
      "U+2001", "U+2002", "U+2003", "U+2004", "U+2005", "U+2006", "U+2007",
      "U+2008", "U+2009", "U+200A", "U+202F", "U+205F", "U+3000" }

Whitespace == {" ", "\t", "\n", "\r", "\f"} \cup WhitespaceByName

RECURSIVE TrimLeft(_)
TrimLeft(s) ==
    IF s # <<>> /\ Head(s) \in Whitespace THEN TrimLeft(Tail(s)) ELSE s

RECURSIVE TrimRight(_)
TrimRight(s) ==
    IF s # <<>> /\ s[Len(s)] \in Whitespace
    THEN TrimRight(SubSeq(s, 1, Len(s) - 1))
    ELSE s

\* String.prototype.trim
Trim(s) == TrimRight(TrimLeft(s))

TagUSER == <<"U", "S", "E", "R", ":">>
TagBOT == <<"B", "O", "T", ":">>
TagAGENT == <<"A", "G", "E", "N", "T", ":">>

\* s.replace(/^(USER|BOT|AGENT):/, ""): the regex is anchored and has no g
\* flag, so at most one leading tag is removed.
StripTag(s) ==
    IF HasPrefix(s, TagUSER) THEN DropFirst(s, Len(TagUSER))
    ELSE IF HasPrefix(s, TagBOT) THEN DropFirst(s, Len(TagBOT))
    ELSE IF HasPrefix(s, TagAGENT) THEN DropFirst(s, Len(TagAGENT))
    ELSE s

\* const clean = (s) => s.replace(/^(USER|BOT|AGENT):/, "").trim();
clean(s) == Trim(StripTag(s))

\* An updater that compares with the last entry only.
TranscriptUpdaterNoScan(prev, text) ==
    IF Len(prev) > 0 /\ prev[Len(prev)] = text THEN prev
    ELSE Append(prev, text)

\* An updater that puts a new entry first.
TranscriptUpdaterFront(prev, text) ==
    IF Len(prev) > 0 /\ prev[Len(prev)] = text THEN prev
    ELSE IF \E i \in 1..Len(prev) : clean(prev[i]) = clean(text) THEN prev
    ELSE <<text>> \o prev

\* The updater passed to setTranscript (api.js 117-122).
TranscriptUpdater(prev, text) ==
    IF Len(prev) > 0 /\ prev[Len(prev)] = text THEN prev
    ELSE IF \E i \in 1..Len(prev) : clean(prev[i]) = clean(text) THEN prev
    ELSE Append(prev, text)

-----------------------------------------------------------------------------
(* JSON values.  Every value is a record of one shape:                     *)
(*   t: the type, s: the characters of a scalar, k: the keys of an object, *)
(*   a: the items of an array or the field values of an object.            *)

JNull == [t |-> "null", s |-> <<>>, k |-> <<>>, a |-> <<>>]
JBool(b) == [t |-> "bool", s |-> <<b>>, k |-> <<>>, a |-> <<>>]
JNum(digits) == [t |-> "num", s |-> digits, k |-> <<>>, a |-> <<>>]
JStr(chars) == [t |-> "str", s |-> chars, k |-> <<>>, a |-> <<>>]
JArr(items) == [t |-> "arr", s |-> <<>>, k |-> <<>>, a |-> items]
JObj(keys, vals) == [t |-> "obj", s |-> <<>>, k |-> keys, a |-> vals]
\* JavaScript's undefined (an absent property).
JUndefined == [t |-> "undefined", s |-> <<>>, k |-> <<>>, a |-> <<>>]

(* JSON tokens: the lexed form of a message body.                          *)
P(c) == [t |-> "punct", v |-> <<c>>]
S(chars) == [t |-> "str", v |-> chars]
N(digits) == [t |-> "num", v |-> digits]
W(word) == [t |-> "word", v |-> <<word>>]

ParseFail == [ok |-> FALSE, val |-> JNull, next |-> 0]

IsPunct(toks, i, c) == i <= Len(toks) /\ toks[i] = P(c)

\* JSON.parse (api.js 125): ParseValue reads one value starting at token i,
\* ParseItems the rest of an array, ParseMembers the rest of an object.
RECURSIVE ParseValue(_, _)
RECURSIVE ParseItems(_, _, _)
RECURSIVE ParseMembers(_, _, _, _)

ParseValue(toks, i) ==
    IF i > Len(toks) THEN ParseFail
    ELSE LET tok == toks[i] IN
      CASE tok.t = "str" -> [ok |-> TRUE, val |-> JStr(tok.v), next |-> i + 1]
        [] tok.t = "num" -> [ok |-> TRUE, val |-> JNum(tok.v), next |-> i + 1]
        [] tok.t = "word" ->
             IF tok.v = <<"null">>
             THEN [ok |-> TRUE, val |-> JNull, next |-> i + 1]
             ELSE IF tok.v \in {<<"true">>, <<"false">>}
             THEN [ok |-> TRUE, val |-> JBool(tok.v[1]), next |-> i + 1]
             ELSE ParseFail
        [] tok = P("[") ->
             IF IsPunct(toks, i + 1, "]")
             THEN [ok |-> TRUE, val |-> JArr(<<>>), next |-> i + 2]
             ELSE ParseItems(toks, i + 1, <<>>)
        [] tok = P("{") ->
             IF IsPunct(toks, i + 1, "}")
             THEN [ok |-> TRUE, val |-> JObj(<<>>, <<>>), next |-> i + 2]
             ELSE ParseMembers(toks, i + 1, <<>>, <<>>)
        [] OTHER -> ParseFail

ParseItems(toks, i, acc) ==
    LET r == ParseValue(toks, i) IN
    IF ~r.ok THEN ParseFail
    ELSE IF IsPunct(toks, r.next, ",")
    THEN ParseItems(toks, r.next + 1, Append(acc, r.val))
    ELSE IF IsPunct(toks, r.next, "]")
    THEN [ok |-> TRUE, val |-> JArr(Append(acc, r.val)), next |-> r.next + 1]
    ELSE ParseFail

ParseMembers(toks, i, keys, vals) ==
    IF ~(i + 1 <= Len(toks) /\ toks[i].t = "str" /\ toks[i + 1] = P(":"))
    THEN ParseFail
    ELSE LET r == ParseValue(toks, i + 2) IN
      IF ~r.ok THEN ParseFail
      ELSE IF IsPunct(toks, r.next, ",")
      THEN ParseMembers(toks, r.next + 1,
                        Append(keys, toks[i].v), Append(vals, r.val))
      ELSE IF IsPunct(toks, r.next, "}")
      THEN [ok |-> TRUE,
            val |-> JObj(Append(keys, toks[i].v), Append(vals, r.val)),
            next |-> r.next + 1]
      ELSE ParseFail

\* JSON.parse(text): a value, or a SyntaxError (ok = FALSE).
JSONParse(toks) ==
    LET r == ParseValue(toks, 1) IN
    IF r.ok /\ r.next = Len(toks) + 1
    THEN [ok |-> TRUE, val |-> r.val]
    ELSE [ok |-> FALSE, val |-> JNull]

-----------------------------------------------------------------------------
(* Citations lane: api.js 123-137.                                         *)

SourcesKey == <<"s", "o", "u", "r", "c", "e", "s">>

\* JavaScript truthiness of a value.
Truthy(v) ==
    CASE v.t \in {"null", "undefined"} -> FALSE
      [] v.t = "bool" -> v.s = <<"true">>
      [] v.t = "num" -> v.s # <<"0">>
      [] v.t = "str" -> v.s # <<>>
      [] OTHER -> TRUE

\* SameValueZero as used by Set and Array.prototype.includes: scalars by
\* value; arrays and objects by reference, and every parse makes new ones.
SameValueZero(x, y) == x.t \notin {"arr", "obj"} /\ x = y

Includes(seq, x) == \E i \in 1..Len(seq) : SameValueZero(seq[i], x)

\* data.sources: the property read.  Reading a property of null throws; an
\* object yields the value of its last "sources" key; any other value has
\* no such property.
ReadSourcesOrArray(data) ==
    IF data.t = "null" THEN [ok |-> FALSE, val |-> JUndefined]
    ELSE IF data.t = "arr" THEN [ok |-> TRUE, val |-> data]
    ELSE IF data.t = "obj" /\ \E i \in 1..Len(data.k) : data.k[i] = SourcesKey
    THEN LET i == CHOOSE j \in 1..Len(data.k) :
                    /\ data.k[j] = SourcesKey
                    /\ \A m \in (j + 1)..Len(data.k) : data.k[m] # SourcesKey
         IN [ok |-> TRUE, val |-> data.a[i]]
    ELSE [ok |-> TRUE, val |-> JUndefined]

ReadSources(data) ==
    IF data.t = "null" THEN [ok |-> FALSE, val |-> JUndefined]
    ELSE IF data.t = "obj" /\ \E i \in 1..Len(data.k) : data.k[i] = SourcesKey
    THEN LET i == CHOOSE j \in 1..Len(data.k) :
                    /\ data.k[j] = SourcesKey
                    /\ \A m \in (j + 1)..Len(data.k) : data.k[m] # SourcesKey
         IN [ok |-> TRUE, val |-> data.a[i]]
    ELSE [ok |-> TRUE, val |-> JUndefined]

\* The iteration of new Set(x): an array yields its items, a string its
\* characters; anything else is not iterable (TypeError).
Iterate(v) ==
    CASE v.t = "arr" -> [ok |-> TRUE, items |-> v.a]
      [] v.t = "str" ->
           [ok |-> TRUE, items |-> [i \in 1..Len(v.s) |-> JStr(<<v.s[i]>>)]]
      [] OTHER -> [ok |-> FALSE, items |-> <<>>]

\* [...new Set(items)]: first occurrences, in order.
RECURSIVE Dedup(_, _)
Dedup(items, acc) ==
    IF items = <<>> THEN acc
    ELSE Dedup(Tail(items),
               IF Includes(acc, Head(items)) THEN acc
               ELSE Append(acc, Head(items)))

\* const sourceFiles = [...new Set(data.sources || [])];  (api.js 125-126)
\* ok = FALSE when the try block throws before setRagSources is reached.
SourceFiles(text) ==
    LET parsed == JSONParse(text) IN
    IF ~parsed.ok THEN [ok |-> FALSE, files |-> <<>>]
    ELSE LET rd == ReadSources(parsed.val) IN
      IF ~rd.ok THEN [ok |-> FALSE, files |-> <<>>]
      ELSE LET arg == IF Truthy(rd.val) THEN rd.val ELSE JArr(<<>>)
               it == Iterate(arg)
           IN IF ~it.ok THEN [ok |-> FALSE, files |-> <<>>]
              ELSE [ok |-> TRUE, files |-> Dedup(it.items, <<>>)]

\* The limit of combined.slice(-8)  (api.js 132).
MaxCitations == 8

\* for (const src of sourceFiles)
\*   if (src && !combined.includes(src)) combined.push(src);
RECURSIVE PushNewNoCheck(_, _)
PushNewNoCheck(combined, files) ==
    IF files = <<>> THEN combined
    ELSE PushNewNoCheck(IF Truthy(Head(files))
                        THEN Append(combined, Head(files))
                        ELSE combined,
                        Tail(files))

RECURSIVE PushNewFront(_, _)
PushNewFront(combined, files) ==
    IF files = <<>> THEN combined
    ELSE PushNewFront(IF Truthy(Head(files)) /\ ~Includes(combined, Head(files))
                      THEN <<Head(files)>> \o combined
                      ELSE combined,
                      Tail(files))

RECURSIVE PushNew(_, _)
PushNew(combined, files) ==
    IF files = <<>> THEN combined
    ELSE PushNew(IF Truthy(Head(files)) /\ ~Includes(combined, Head(files))
                 THEN Append(combined, Head(files))
                 ELSE combined,
                 Tail(files))

\* The updater passed to setRagSources (api.js 127-133).
RagUpdaterKeepFirst(prev, files) ==
    LET c == PushNew(prev, files) IN
    IF Len(c) <= MaxCitations THEN c ELSE SubSeq(c, 1, MaxCitations)

RagUpdater(prev, files) == SliceLast(PushNew(prev, files), MaxCitations)

-----------------------------------------------------------------------------
(* The document: the audio elements appended to document.body, in document *)
(* order.  An element is [id, track]: its id is `audio-${identity}`        *)
(* (represented by the identity) and track is the sid of the track whose   *)
(* attach() created it.                                                    *)

\* The remote tracks of the model; those of one participant stand in the
\* order of its publications (the iteration order of its track publications).
TrackOrder ==
    << [sid |-> "a1", owner |-> "agent", kind |-> "audio"],
       [sid |-> "a2", owner |-> "agent", kind |-> "audio"],
       [sid |-> "v1", owner |-> "agent", kind |-> "video"],
       [sid |-> "b1", owner |-> "peer", kind |-> "audio"] >>

Tracks == Range(TrackOrder)

Identities == { t.owner : t \in Tracks }

\* el.remove() on document.getElementById(id): the first element in document
\* order that has the id, when there is one.
RemoveById(d, id) ==
    IF \E i \in 1..Len(d) : d[i].id = id
    THEN LET i == CHOOSE j \in 1..Len(d) :
                    d[j].id = id /\ \A m \in 1..(j - 1) : d[m].id # id
         IN SubSeq(d, 1, i - 1) \o SubSeq(d, i + 1, Len(d))
    ELSE d

\* track.detach().forEach((el) => el.remove())
RemoveByTrack(d, sid) == SelectSeq(d, LAMBDA e : e.track # sid)

\* attachAudioTrack (api.js 74-90).
AttachAudioTrackNoRemove(d, track, identity) ==
    Append(d, [id |-> identity, track |-> track.sid])

AttachAudioTrack(d, track, identity) ==
    Append(RemoveById(d, identity), [id |-> identity, track |-> track.sid])

\* The publications of a participant, in publication order.
TracksOf(identity) == SelectSeq(TrackOrder, LAMBDA t : t.owner = identity)

\* The tracks of the room as its Maps are walked: remoteParticipants in
\* insertion order (parts), the publications of each in publication order.
RECURSIVE WalkOrder(_)
WalkOrder(parts) ==
    IF parts = <<>> THEN <<>> ELSE TracksOf(Head(parts)) \o WalkOrder(Tail(parts))

\* reattachAllAudio (api.js 63-72): r is "null" or "r"; parts is the list of
\* the remote participants of the room in the order they joined, subs the
\* set of its subscribed tracks, order the walk over the publications.
RECURSIVE ReattachFrom(_, _, _, _)
ReattachFrom(d, subs, order, i) ==
    IF i > Len(order) THEN d
    ELSE LET t == order[i] IN
         ReattachFrom(IF t.kind = "audio" /\ t \in subs
                      THEN AttachAudioTrack(d, t, t.owner)
                      ELSE d,
                      subs, order, i + 1)

ReattachAllAudio(d, r, parts, subs) ==
    IF r = "null" THEN d ELSE ReattachFrom(d, subs, WalkOrder(parts), 1)

\* A handler body that removes every audio element of the document.
UnsubscribedSinksAll(d, track) == <<>>

\* The body of the TrackUnsubscribed handler past its guard (api.js 203-205).
UnsubscribedSinks(d, track) == RemoveById(RemoveByTrack(d, track.sid), track.owner)

\* The TrackUnsubscribed events the room emits for every subscribed track
\* when it closes, each handled as above.
RECURSIVE UnsubscribeAllFrom(_, _, _, _)
UnsubscribeAllFrom(d, subs, order, i) ==
    IF i > Len(order) THEN d
    ELSE UnsubscribeAllFrom(IF order[i] \in subs
                            THEN UnsubscribedSinks(d, order[i])
                            ELSE d,
                            subs, order, i + 1)

-----------------------------------------------------------------------------
(* State.                                                                  *)

VARIABLES
    \* the component instance and its hooks (api.js 35-45)
    exists,           \* the instance is mounted in the React tree
    hasCleanup,       \* the last run of the effect returned cleanup
    room,             \* useState room: "null" or "r"
    transcript,       \* useState transcript
    ragSources,       \* useState ragSources
    isConnected,      \* useState isConnected
    agentState,       \* useState agentState
    isMicEnabled,     \* useState isMicEnabled
    connectionError,  \* useState connectionError: "null", "join", "mic"
    rendered,         \* what the last render read: isConnected, isMicEnabled, room
    roomRef,          \* roomRef.current: "null" or "r"
    isConnectingRef,  \* isConnectingRef.current
    isMountedRef,     \* isMountedRef.current
    \* the document
    dom,
    \* the Room r created by the last run of the effect that created one
    rstate,           \* r.state; "idle" when no Room has been created
    connectP,         \* the promise of r.connect(): none, pending, fulfilled, done
    closing,          \* r.disconnect() was requested and has not completed
    subscribed,       \* the subscribed remote tracks of r
    participants,     \* the keys of r.remoteParticipants, in insertion order
    micPub,           \* the local microphone publication: absent, unmuted, muted
    \* the runs of the async functions that are suspended at an await
    pcRec,            \* Reconnected handler: how many wait at each await
    pcMic,            \* startMic: how many wait at each await
    pcStop,           \* stopMic: how many wait at its await
    \* observations
    effectRuns,       \* runs of the effect after the first
    onEndCalls,       \* invocations of onEnd
    disconnectCalls,  \* invocations of r.disconnect() on the Room r
    everReleased,     \* the Room r closed, by request or by itself
    tornDown,         \* teardown of the session of r has begun
    micInvokedIn,     \* r.state when startMic was last invoked
    lastMsg,          \* the last data message delivered: [topic, text, applied]
    prevLanes,        \* <<transcript, ragSources>> when it was delivered
    seenOrder,        \* identifiers of applied batches, by first appearance
    insertOrder       \* the same identifiers, by latest insertion into the list

view == <<room, transcript, ragSources, isConnected, agentState, isMicEnabled,
          connectionError>>
refs == <<roomRef, isConnectingRef, isMountedRef>>
comp == <<exists, hasCleanup, effectRuns>>
transport == <<rstate, connectP, closing, subscribed, participants, micPub>>
pcs == <<pcRec, pcMic, pcStop>>
obs == <<onEndCalls, disconnectCalls, everReleased, tornDown, micInvokedIn>>
hist == <<lastMsg, prevLanes, seenOrder, insertOrder>>

vars == <<view, rendered, refs, comp, dom, transport, pcs, obs, hist>>

(* Bounds of the model.                                                    *)
MaxEffectRuns == 2
MaxInFlight == 2

NoRoom == "null"
NoMsg == [topic |-> "none", text |-> <<>>, applied |-> FALSE]
TheRoom == "r"

\* No run of an async function is suspended; the number of its suspended
\* runs.  resume: at await resumeAudioContext(); mic: at await
\* setMicrophoneEnabled(true).
NoRuns == [resume |-> 0, mic |-> 0]
InFlight(pc) == pc.resume + pc.mic

-----------------------------------------------------------------------------
(* Initial state: the hooks' initial values (api.js 35-45) followed by the *)
(* first run of the effect (api.js 92-223), with props that are either     *)
(* both non-empty (a Room is created and connect() called) or not.         *)

Init ==
    /\ exists = TRUE
    /\ room = NoRoom
    /\ transcript = <<>>
    /\ ragSources = <<>>
    /\ isConnected = FALSE
    /\ agentState = "initializing"
    /\ isMicEnabled = FALSE
    /\ connectionError = "null"
    /\ rendered = [isConnected |-> FALSE, isMicEnabled |-> FALSE, room |-> NoRoom]
    /\ roomRef = NoRoom
    /\ isMountedRef = TRUE
    /\ dom = <<>>
    /\ closing = FALSE
    /\ subscribed = {}
    /\ participants = <<>>
    /\ micPub = "absent"
    /\ pcRec = NoRuns
    /\ pcMic = NoRuns
    /\ pcStop = 0
    /\ effectRuns = 0
    /\ onEndCalls = 0
    /\ disconnectCalls = 0
    /\ everReleased = FALSE
    /\ tornDown = FALSE
    /\ micInvokedIn = "never"
    /\ lastMsg = NoMsg
    /\ prevLanes = << <<>>, <<>> >>
    /\ seenOrder = <<>>
    /\ insertOrder = <<>>
    /\ \/ /\ isConnectingRef = TRUE
          /\ hasCleanup = TRUE
          /\ rstate = "connecting"
          /\ connectP = "pending"
       \/ /\ isConnectingRef = FALSE
          /\ hasCleanup = FALSE
          /\ rstate = "idle"
          /\ connectP = "none"

\* A state setter of a component that is no longer mounted does nothing.
SetState(old, new) == IF exists THEN new ELSE old

\* The Room is open, or closing and not yet closed.
Live == rstate \in {"connecting", "connected", "reconnecting"}

-----------------------------------------------------------------------------
(* Inputs of the data lanes.                                               *)

\* {"sources": [ids...]} as tokens, for a list of identifiers (each a
\* sequence of characters).
Batch(ids) ==
    <<P("{"), S(SourcesKey), P(":"), P("[")>>
    \o [j \in 1..(IF ids = <<>> THEN 0 ELSE 2 * Len(ids) - 1) |->
          IF j % 2 = 1 THEN S(ids[(j + 1) \div 2]) ELSE P(",")]
    \o <<P("]"), P("}")>>

\* One-character identifiers.
Ids(chars) == [i \in 1..Len(chars) |-> <<chars[i]>>]

\* Identifier lists of the valid batches delivered on the citations lane:
\* nine distinct identifiers, a repeated delivery, a batch that repeats an
\* identifier, a batch with an empty identifier, an empty batch.
BatchLists ==
    { Ids(<<"a", "b", "c", "d", "e", "f", "g", "h", "i">>),
      Ids(<<"a">>), Ids(<<"b", "a", "b">>),
      << <<>>, <<"e">> >>, <<>> }

\* Bodies that are not JSON.
NotJsonTexts ==
    { <<W("hello")>>, <<>>,
      <<P("{"), S(SourcesKey), P(":"), P("[")>>,
      <<P("{"), S(SourcesKey), P(":"), P("["), S(<<"a">>), P(","), P("]"), P("}")>>,
      <<P("["), S(<<"a">>), P("]"), P("]")>> }

\* Bodies that are JSON without a sources field.
NoSourcesTexts ==
    { <<P("{"), P("}")>>,
      <<P("{"), S(<<"f", "i", "l", "e", "s">>), P(":"), P("["), S(<<"z">>), P("]"), P("}")>>,
      <<P("["), S(<<"z">>), P("]")>>,
      <<S(<<"z">>)>>, <<N(<<"7">>)>>, <<W("true")>>, <<W("null")>> }

MalformedTexts == NotJsonTexts \cup NoSourcesTexts

CitationTexts == { Batch(ids) : ids \in BatchLists } \cup MalformedTexts

\* A JSON object whose only member is sources, with the given value.
SourcesBody(value) == <<P("{"), S(SourcesKey), P(":")>> \o value \o <<P("}")>>

\* Bodies that are a JSON object whose sources field is not a list of
\* strings: a string, a number, a boolean, an object, a list with a number,
\* a list with null, a list with a list.
ShapeTexts ==
    { SourcesBody(<<S(<<"a", "b">>)>>),
      SourcesBody(<<N(<<"7">>)>>),
      SourcesBody(<<W("true")>>),
      SourcesBody(<<P("{"), S(<<"a">>), P(":"), S(<<"b">>), P("}")>>),
      SourcesBody(<<P("["), N(<<"7">>), P(","), S(<<"a">>), P("]")>>),
      SourcesBody(<<P("["), W("null"), P("]")>>),
      SourcesBody(<<P("["), P("["), S(<<"a">>), P("]"), P("]")>>) }

\* The texts of a list of values.
TextsOf(values) == [i \in 1..Len(values) |-> values[i].s]

\* The identifiers a body delivers: the texts of sourceFiles (api.js 126),
\* none when the try block throws before it.
IdsOf(text) == TextsOf(SourceFiles(text).files)

\* Utterances delivered on the transcript lane.
TranscriptTexts ==
    { <<"U", "S", "E", "R", ":", "a">>,
      <<"A", "G", "E", "N", "T", ":", "a">>,
      <<"B", "O", "T", ":", "a">>,
      <<"a">>,
      <<"U", "S", "E", "R", ":", " ", "a", " ">>,
      <<" ", "U", "S", "E", "R", ":", "a">>,
      <<"U", "S", "E", "R", ":", "U", "S", "E", "R", ":", "a">>,
      <<"u", "s", "e", "r", ":", "a">>,
      <<"U", "S", "E", "R", ":", "b">>,
      <<"A", "G", "E", "N", "T", ":", "b", "\r", "\n">>,
      <<"U", "S", "E", "R", ":", "\f", "U+00A0">>,
      <<>> }

\* First occurrences of a list, appended to acc.
RECURSIVE FirstOcc(_, _)
FirstOcc(ids, acc) ==
    IF ids = <<>> THEN acc
    ELSE FirstOcc(Tail(ids),
                  IF Head(ids) \in Range(acc) THEN acc ELSE Append(acc, Head(ids)))

\* The texts of the entries of a citation list.
RagIds(rag) == [i \in 1..Len(rag) |-> rag[i].s]

\* The remote track of the session specification: the first audio track of
\* the agent.
SessionTracks == { t \in Tracks : t.sid = "a1" }

\* The messages of the specification of the lanes within a session.
LaneTexts == { <<"U", "S", "E", "R", ":", "a">>, <<"B", "O", "T", ":", "a">> }

LanePayloads == MalformedTexts \cup { Batch(Ids(<<"a">>)) }

-----------------------------------------------------------------------------
(* Inbound data messages: api.js 111-138.                                  *)

\* A transcript lane that would wait for the session to be connected.
TranscriptLaneWhenConnected(text) ==
    /\ transcript' = IF isConnected
                     THEN SetState(transcript, TranscriptUpdater(transcript, text))
                     ELSE transcript
    /\ UNCHANGED ragSources

\* The transcript lane past the guard (api.js 116-122).
TranscriptLane(text) ==
    /\ transcript' = SetState(transcript, TranscriptUpdater(transcript, text))
    /\ UNCHANGED ragSources

\* The rag_sources lane past the guard (api.js 123-137): whatever the try
\* block throws is caught and logged.
RagSourcesLane(text) ==
    /\ LET sf == SourceFiles(text) IN
         ragSources' = IF sf.ok
                       THEN SetState(ragSources, RagUpdater(ragSources, sf.files))
                       ELSE ragSources
    /\ UNCHANGED transcript

\* What the message adds to the history of the citations lane.
CitationHistory(text) ==
    LET new == FirstOcc(IdsOf(text), <<>>)
        inserted == TextsOf(SelectSeq(SourceFiles(text).files,
                                      LAMBDA x : /\ Truthy(x)
                                                 /\ ~Includes(ragSources, x)))
    IN /\ seenOrder' = FirstOcc(new, seenOrder)
       /\ insertOrder' =
            SelectSeq(insertOrder, LAMBDA x : x \notin Range(inserted)) \o inserted

\* The handler is registered on the Room r with r.on and runs whenever r
\* emits the event; it looks at isMountedRef only, not at r.state.
DataReceived(topic, text) ==
    /\ rstate # "idle"
    /\ IF ~isMountedRef THEN UNCHANGED <<transcript, ragSources>>
       ELSE IF topic = "transcript" THEN TranscriptLane(text)
       ELSE IF topic = "rag_sources" THEN RagSourcesLane(text)
       ELSE UNCHANGED <<transcript, ragSources>>
    /\ lastMsg' = [topic |-> topic, text |-> text, applied |-> isMountedRef /\ exists]
    /\ prevLanes' = <<transcript, ragSources>>
    /\ IF isMountedRef /\ exists /\ topic = "rag_sources"
       THEN CitationHistory(text)
       ELSE UNCHANGED <<seenOrder, insertOrder>>
    /\ UNCHANGED <<room, isConnected, agentState, isMicEnabled, connectionError,
                   rendered, refs, comp, dom, transport, pcs, obs>>

-----------------------------------------------------------------------------
(* Connection life cycle events of the Room.                               *)

\* RoomEvent.Connected (api.js 140-145); the promise of connect() is
\* fulfilled, its continuation runs later.
Connected ==
    /\ rstate = "connecting" /\ connectP = "pending" /\ ~closing
    /\ rstate' = "connected"
    /\ connectP' = "fulfilled"
    /\ IF isMountedRef
       THEN /\ isConnected' = SetState(isConnected, TRUE)
            /\ agentState' = SetState(agentState, "waiting")
       ELSE UNCHANGED <<isConnected, agentState>>
    /\ UNCHANGED <<room, transcript, ragSources, isMicEnabled, connectionError,
                   refs, comp, dom, closing, subscribed, participants, micPub, pcs, obs>>
    /\ UNCHANGED hist
    /\ UNCHANGED rendered

\* A continuation that would release the join guard once the join is done.
ConnectResolvedReleasesGuard ==
    /\ connectP = "fulfilled"
    /\ connectP' = "done"
    /\ isConnectingRef' = FALSE
    /\ IF ~isMountedRef
       THEN /\ disconnectCalls' = disconnectCalls + 1
            /\ closing' = (closing \/ Live)
            /\ UNCHANGED <<roomRef, room>>
       ELSE /\ roomRef' = TheRoom
            /\ room' = SetState(room, TheRoom)
            /\ UNCHANGED <<disconnectCalls, closing>>
    /\ UNCHANGED <<transcript, ragSources, isConnected, agentState, isMicEnabled,
                   connectionError, isMountedRef, comp, dom,
                   rstate, subscribed, participants, micPub, pcs, onEndCalls, everReleased,
                   tornDown, micInvokedIn>>
    /\ UNCHANGED hist
    /\ UNCHANGED rendered

\* The .then continuation of r.connect() (api.js 210-215).
ConnectResolved ==
    /\ connectP = "fulfilled"
    /\ connectP' = "done"
    /\ IF ~isMountedRef
       THEN /\ disconnectCalls' = disconnectCalls + 1
            /\ closing' = (closing \/ Live)
            /\ UNCHANGED <<roomRef, room>>
       ELSE /\ roomRef' = TheRoom
            /\ room' = SetState(room, TheRoom)
            /\ UNCHANGED <<disconnectCalls, closing>>
    /\ UNCHANGED <<transcript, ragSources, isConnected, agentState, isMicEnabled,
                   connectionError, isConnectingRef, isMountedRef, comp, dom,
                   rstate, subscribed, participants, micPub, pcs, onEndCalls, everReleased,
                   tornDown, micInvokedIn>>
    /\ UNCHANGED hist
    /\ UNCHANGED rendered

\* A catch continuation that leaves the join guard set.
ConnectRejectedKeepsGuard ==
    /\ connectP = "pending" /\ rstate = "connecting"
    /\ connectP' = "done"
    /\ rstate' = "disconnected"
    /\ closing' = FALSE
    /\ connectionError' = IF isMountedRef THEN SetState(connectionError, "join")
                          ELSE connectionError
    /\ isConnectingRef' = isConnectingRef
    /\ UNCHANGED <<room, transcript, ragSources, isConnected, agentState,
                   isMicEnabled, roomRef, isMountedRef, comp, dom, subscribed, participants,
                   micPub, pcs, obs>>
    /\ UNCHANGED hist
    /\ UNCHANGED rendered

\* r.connect() rejects, because the transport could not be established or
\* because disconnect() was requested while connecting; the .catch
\* continuation (api.js 216-220).
ConnectRejected ==
    /\ connectP = "pending" /\ rstate = "connecting"
    /\ connectP' = "done"
    /\ rstate' = "disconnected"
    /\ closing' = FALSE
    /\ connectionError' = IF isMountedRef THEN SetState(connectionError, "join")
                          ELSE connectionError
    /\ isConnectingRef' = FALSE
    /\ UNCHANGED <<room, transcript, ragSources, isConnected, agentState,
                   isMicEnabled, roomRef, isMountedRef, comp, dom, subscribed, participants,
                   micPub, pcs, obs>>
    /\ UNCHANGED hist
    /\ UNCHANGED rendered

\* The Room closes: by itself (the terminal closed signal) or on completing a
\* requested disconnect.  It emits TrackUnsubscribed for every subscribed
\* track (api.js 201-206), then RoomEvent.Disconnected (api.js 147-152).
RoomClosed ==
    /\ rstate \in {"connected", "reconnecting"}
    /\ rstate' = "disconnected"
    /\ closing' = FALSE
    /\ subscribed' = {}
    /\ participants' = <<>>
    /\ micPub' = "absent"
    /\ everReleased' = TRUE
    /\ tornDown' = TRUE
    /\ IF isMountedRef
       THEN /\ dom' = UnsubscribeAllFrom(dom, subscribed, WalkOrder(participants), 1)
            /\ isConnected' = SetState(isConnected, FALSE)
            /\ isMicEnabled' = SetState(isMicEnabled, FALSE)
       ELSE UNCHANGED <<dom, isConnected, isMicEnabled>>
    /\ UNCHANGED <<room, transcript, ragSources, agentState, connectionError,
                   refs, comp, connectP, pcs, onEndCalls, disconnectCalls,
                   micInvokedIn>>
    /\ UNCHANGED hist
    /\ UNCHANGED rendered

\* A Reconnecting handler that also clears the mic flag.
ReconnectingClearsMic(drop) ==
    /\ rstate = "connected" /\ ~closing
    /\ rstate' = "reconnecting"
    /\ micPub' = IF drop THEN "absent" ELSE micPub
    /\ IF isMountedRef
       THEN /\ isConnected' = SetState(isConnected, FALSE)
            /\ agentState' = SetState(agentState, "initializing")
            /\ isMicEnabled' = SetState(isMicEnabled, FALSE)
       ELSE UNCHANGED <<isConnected, agentState, isMicEnabled>>
    /\ UNCHANGED <<room, transcript, ragSources, connectionError,
                   refs, comp, dom, connectP, closing, subscribed, participants, pcs, obs>>
    /\ UNCHANGED hist
    /\ UNCHANGED rendered

\* RoomEvent.Reconnecting (api.js 154-159).  The transport may drop the local
\* publication while it renegotiates.
Reconnecting(drop) ==
    /\ rstate = "connected" /\ ~closing
    /\ rstate' = "reconnecting"
    /\ micPub' = IF drop THEN "absent" ELSE micPub
    /\ IF isMountedRef
       THEN /\ isConnected' = SetState(isConnected, FALSE)
            /\ agentState' = SetState(agentState, "initializing")
       ELSE UNCHANGED <<isConnected, agentState>>
    /\ UNCHANGED <<room, transcript, ragSources, isMicEnabled, connectionError,
                   refs, comp, dom, connectP, closing, subscribed, participants, pcs, obs>>
    /\ UNCHANGED hist
    /\ UNCHANGED rendered

\* RoomEvent.Reconnected up to its first await (api.js 161-167).  Every
\* event starts a run of the handler, whether or not an earlier run is still
\* suspended.
Reconnected ==
    /\ rstate = "reconnecting" /\ ~closing
    /\ InFlight(pcRec) < MaxInFlight
    /\ rstate' = "connected"
    /\ IF isMountedRef
       THEN /\ isConnected' = SetState(isConnected, TRUE)
            /\ agentState' = SetState(agentState, "waiting")
            /\ pcRec' = [pcRec EXCEPT !.resume = @ + 1]
       ELSE UNCHANGED <<isConnected, agentState, pcRec>>
    /\ UNCHANGED <<room, transcript, ragSources, isMicEnabled, connectionError,
                   refs, comp, dom, connectP, closing, subscribed, participants, micPub,
                   pcMic, pcStop, obs>>
    /\ UNCHANGED hist
    /\ UNCHANGED rendered

\* localParticipant.getTrackPublication(key) of livekit-client, which is not
\* part of the repository: the microphone publication when the library's
\* lookup matches it for this key (matches), "absent" when it does not or when
\* there is none.
GetTrackPublication(key, matches) == IF matches THEN micPub ELSE "absent"

\* The Reconnected handler from the return of resumeAudioContext to its next
\* await or its end (api.js 168-173).
ReconnectedResume(matches) ==
    /\ pcRec.resume > 0
    /\ dom' = ReattachAllAudio(dom, TheRoom, participants, subscribed)
    /\ pcRec' = IF GetTrackPublication("audio", matches) = "unmuted"
              THEN [resume |-> pcRec.resume - 1, mic |-> pcRec.mic + 1]
              ELSE [pcRec EXCEPT !.resume = @ - 1]
    /\ UNCHANGED <<view, refs, comp, transport, pcMic, pcStop, obs>>
    /\ UNCHANGED hist
    /\ UNCHANGED rendered

\* The Reconnected handler after setMicrophoneEnabled(true) settles
\* (api.js 173-178).
ReconnectedMicDone(ok) ==
    /\ pcRec.mic > 0
    /\ pcRec' = [pcRec EXCEPT !.mic = @ - 1]
    /\ IF ok
       THEN /\ micPub' = "unmuted"
            /\ isMicEnabled' = SetState(isMicEnabled, TRUE)
       ELSE UNCHANGED <<micPub, isMicEnabled>>
    /\ UNCHANGED <<room, transcript, ragSources, isConnected, agentState,
                   connectionError, refs, comp, dom, rstate, connectP, closing,
                   subscribed, participants, pcMic, pcStop, obs>>
    /\ UNCHANGED hist
    /\ UNCHANGED rendered

-----------------------------------------------------------------------------
(* Participants and tracks.                                                *)

\* A participant joins: the Room adds it to remoteParticipants and emits
\* RoomEvent.ParticipantConnected (api.js 181-186).  isAgent: its kind is 4 or
\* its isAgent is set.
ParticipantConnected(identity, isAgent) ==
    /\ rstate = "connected"
    /\ participants' = IF identity \in Range(participants) THEN participants
                       ELSE Append(participants, identity)
    /\ agentState' = IF isMountedRef /\ isAgent
                     THEN SetState(agentState, "listening")
                     ELSE agentState
    /\ UNCHANGED <<room, transcript, ragSources, isConnected, isMicEnabled,
                   connectionError, refs, comp, dom, rstate, connectP, closing,
                   subscribed, micPub, pcs, obs>>
    /\ UNCHANGED hist
    /\ UNCHANGED rendered

\* A participant leaves: the Room emits TrackUnsubscribed for each of its
\* subscribed tracks, then RoomEvent.ParticipantDisconnected (api.js 188-193).
ParticipantDisconnected(identity) ==
    /\ rstate \in {"connected", "reconnecting"}
    /\ LET mine == { t \in subscribed : t.owner = identity } IN
         /\ subscribed' = subscribed \ mine
         /\ dom' = IF isMountedRef
                   THEN RemoveById(UnsubscribeAllFrom(dom, mine, TracksOf(identity), 1),
                                   identity)
                   ELSE dom
    /\ participants' = SelectSeq(participants, LAMBDA p : p # identity)
    /\ UNCHANGED <<view, refs, comp, rstate, connectP, closing, micPub, pcs, obs>>
    /\ UNCHANGED hist
    /\ UNCHANGED rendered

\* RoomEvent.TrackSubscribed (api.js 195-199).
TrackSubscribed(track) ==
    /\ rstate = "connected"
    /\ track \notin subscribed
    /\ subscribed' = subscribed \cup {track}
    /\ participants' = IF track.owner \in Range(participants) THEN participants
                       ELSE Append(participants, track.owner)
    /\ dom' = IF isMountedRef /\ track.kind = "audio"
              THEN AttachAudioTrack(dom, track, track.owner)
              ELSE dom
    /\ UNCHANGED <<view, refs, comp, rstate, connectP, closing, micPub, pcs, obs>>
    /\ UNCHANGED hist
    /\ UNCHANGED rendered

\* RoomEvent.TrackUnsubscribed (api.js 201-206).
TrackUnsubscribed(track) ==
    /\ rstate \in {"connected", "reconnecting"}
    /\ track \in subscribed
    /\ subscribed' = subscribed \ {track}
    /\ UNCHANGED participants
    /\ dom' = IF isMountedRef THEN UnsubscribedSinks(dom, track) ELSE dom
    /\ UNCHANGED <<view, refs, comp, rstate, connectP, closing, micPub, pcs, obs>>
    /\ UNCHANGED hist
    /\ UNCHANGED rendered

-----------------------------------------------------------------------------
(* Microphone actions.                                                     *)

\* The state the component would render now: what the buttons' disabled
\* attributes and the closures of startMic and stopMic read (api.js 226-254,
\* 286-297).
Current == [isConnected |-> isConnected, isMicEnabled |-> isMicEnabled, room |-> room]

\* React renders the mounted component again after its state changed.  The
\* handlers of the Room run outside React's event handlers, so the render of
\* what they set is committed in a later task; until then the document shows
\* the buttons of the previous render and their onClick holds the startMic
\* and stopMic of that render.
Render ==
    /\ exists
    /\ rendered # Current
    /\ rendered' = Current
    /\ UNCHANGED <<view, refs, comp, dom, transport, pcs, obs, hist>>

\* The Start Talking button can be clicked: it is in the document and the
\* last render did not disable it (api.js 286-289).
StartTalkingEnabled == exists /\ rendered.isConnected /\ ~rendered.isMicEnabled

\* A click on Start Talking invokes the startMic of the last render
\* (api.js 226-229): it returns at once if the room of that render is null,
\* else it runs up to its first await.  A click while an earlier run is
\* suspended starts another run.
EnableMic ==
    /\ StartTalkingEnabled
    /\ InFlight(pcMic) < MaxInFlight
    /\ micInvokedIn' = rstate
    /\ pcMic' = IF rendered.room = NoRoom THEN pcMic
              ELSE [pcMic EXCEPT !.resume = @ + 1]
    /\ UNCHANGED <<view, refs, comp, dom, transport, pcRec, pcStop, onEndCalls,
                   disconnectCalls, everReleased, tornDown>>
    /\ UNCHANGED hist
    /\ UNCHANGED rendered

\* startMic from the return of resumeAudioContext to the call of
\* setMicrophoneEnabled(true) (api.js 231-237).
StartMicResume ==
    /\ pcMic.resume > 0
    /\ dom' = ReattachAllAudio(dom, roomRef, participants, subscribed)
    /\ pcMic' = [resume |-> pcMic.resume - 1, mic |-> pcMic.mic + 1]
    /\ UNCHANGED <<view, refs, comp, transport, pcRec, pcStop, obs>>
    /\ UNCHANGED hist
    /\ UNCHANGED rendered

\* startMic after setMicrophoneEnabled(true) settles (api.js 238-243).
StartMicDone(ok) ==
    /\ pcMic.mic > 0
    /\ pcMic' = [pcMic EXCEPT !.mic = @ - 1]
    /\ IF ok
       THEN /\ micPub' = "unmuted"
            /\ isMicEnabled' = SetState(isMicEnabled, TRUE)
            /\ UNCHANGED connectionError
       ELSE /\ connectionError' = SetState(connectionError, "mic")
            /\ UNCHANGED <<micPub, isMicEnabled>>
    /\ UNCHANGED <<room, transcript, ragSources, isConnected, agentState, refs,
                   comp, dom, rstate, connectP, closing, subscribed, participants, pcRec,
                   pcStop, obs>>
    /\ UNCHANGED hist
    /\ UNCHANGED rendered

\* The Mute button can be clicked: it is in the document and the last
\* render did not disable it (api.js 294-297).
MuteEnabled == exists /\ rendered.isConnected /\ rendered.isMicEnabled

\* A click on Mute invokes the stopMic of the last render (api.js 246-249):
\* it returns at once if the room of that render is null, else it runs up to
\* its await.
DisableMic ==
    /\ MuteEnabled
    /\ pcStop < MaxInFlight
    /\ pcStop' = IF rendered.room = NoRoom THEN pcStop ELSE pcStop + 1
    /\ UNCHANGED <<view, refs, comp, dom, transport, pcRec, pcMic, obs>>
    /\ UNCHANGED hist
    /\ UNCHANGED rendered

\* stopMic after setMicrophoneEnabled(false) settles (api.js 250-253).
StopMicDone(ok) ==
    /\ pcStop > 0
    /\ pcStop' = pcStop - 1
    /\ IF ok
       THEN /\ micPub' = IF micPub = "unmuted" THEN "muted" ELSE micPub
            /\ isMicEnabled' = SetState(isMicEnabled, FALSE)
       ELSE UNCHANGED <<micPub, isMicEnabled>>
    /\ UNCHANGED <<room, transcript, ragSources, isConnected, agentState,
                   connectionError, refs, comp, dom, rstate, connectP, closing,
                   subscribed, participants, pcRec, pcMic, obs>>
    /\ UNCHANGED hist
    /\ UNCHANGED rendered

-----------------------------------------------------------------------------
(* Teardown and the effect.                                                *)

\* cleanup (api.js 105-109) calls r.disconnect() unless r.state is
\* Disconnected.
CleanupDisconnects == hasCleanup /\ rstate # "disconnected"

\* A disconnect whose onEnd leaves the component mounted.
EndCallStaysMounted ==
    /\ exists
    /\ isMountedRef' = FALSE
    /\ dom' = <<>>
    /\ IF roomRef # NoRoom
       THEN /\ disconnectCalls' = disconnectCalls + 1
            /\ closing' = (closing \/ Live)
       ELSE UNCHANGED <<disconnectCalls, closing>>
    /\ roomRef' = NoRoom
    /\ room' = NoRoom
    /\ isConnected' = FALSE
    /\ onEndCalls' = onEndCalls + 1
    /\ tornDown' = TRUE
    /\ UNCHANGED <<transcript, ragSources, agentState, isMicEnabled,
                   connectionError, isConnectingRef, comp, rstate, connectP,
                   subscribed, participants, micPub, pcs, everReleased, micInvokedIn>>
    /\ UNCHANGED hist
    /\ UNCHANGED rendered

\* A click on End Call invokes disconnect (api.js 256-263).  Its last call,
\* onEnd, is handleEndCall of App (App.jsx 99-101): setConnection(null) takes
\* VoiceRoom out of the tree, so React unmounts it in the same turn and runs
\* the cleanup the effect returned (api.js 105-109), which asks the Room to
\* disconnect again unless r.state is Disconnected.
EndCall ==
    /\ exists
    /\ isMountedRef' = FALSE
    /\ dom' = <<>>
    /\ disconnectCalls' = disconnectCalls
                            + (IF roomRef # NoRoom THEN 1 ELSE 0)
                            + (IF CleanupDisconnects THEN 1 ELSE 0)
    /\ closing' = (closing \/ (roomRef # NoRoom /\ Live) \/ CleanupDisconnects)
    /\ roomRef' = NoRoom
    /\ room' = NoRoom
    /\ isConnected' = FALSE
    /\ onEndCalls' = onEndCalls + 1
    /\ tornDown' = TRUE
    /\ exists' = FALSE
    /\ hasCleanup' = FALSE
    /\ UNCHANGED <<transcript, ragSources, agentState, isMicEnabled,
                   connectionError, isConnectingRef, effectRuns, rstate, connectP,
                   subscribed, participants, micPub, pcs, everReleased, micInvokedIn>>
    /\ UNCHANGED hist
    /\ UNCHANGED rendered

\* The component is unmounted: React runs the cleanup the effect returned.
Unmount ==
    /\ exists
    /\ exists' = FALSE
    /\ hasCleanup' = FALSE
    /\ IF hasCleanup
       THEN /\ isMountedRef' = FALSE
            /\ dom' = <<>>
            /\ tornDown' = TRUE
       ELSE UNCHANGED <<isMountedRef, dom, tornDown>>
    /\ IF CleanupDisconnects
       THEN /\ disconnectCalls' = disconnectCalls + 1
            /\ closing' = TRUE
       ELSE UNCHANGED <<disconnectCalls, closing>>
    /\ UNCHANGED <<view, roomRef, isConnectingRef, effectRuns, rstate, connectP,
                   subscribed, participants, micPub, pcs, onEndCalls, everReleased,
                   micInvokedIn>>
    /\ UNCHANGED hist
    /\ UNCHANGED rendered

\* An effect without the isConnectingRef guard.
EffectNoGuard(propsOk) ==
    /\ exists /\ effectRuns < MaxEffectRuns
    /\ effectRuns' = effectRuns + 1
    /\ isMountedRef' = TRUE
    /\ IF propsOk
       THEN \* a new Room; the previous one, if any, failed to connect
            /\ isConnectingRef' = TRUE
            /\ connectionError' = "null"
            /\ hasCleanup' = TRUE
            /\ dom' = IF hasCleanup THEN <<>> ELSE dom
            /\ rstate' = "connecting"
            /\ connectP' = "pending"
            /\ closing' = FALSE
            /\ subscribed' = {}
            /\ participants' = <<>>
            /\ micPub' = "absent"
            /\ disconnectCalls' = 0
            /\ everReleased' = FALSE
            /\ tornDown' = FALSE
            /\ micInvokedIn' = "never"
       ELSE /\ hasCleanup' = FALSE
            /\ dom' = IF hasCleanup THEN <<>> ELSE dom
            /\ tornDown' = (tornDown \/ hasCleanup)
            /\ IF CleanupDisconnects
               THEN /\ disconnectCalls' = disconnectCalls + 1
                    /\ closing' = TRUE
               ELSE UNCHANGED <<disconnectCalls, closing>>
            /\ UNCHANGED <<isConnectingRef, connectionError, rstate, connectP,
                           subscribed, participants, micPub, everReleased, micInvokedIn>>
    /\ UNCHANGED <<room, transcript, ragSources, isConnected, agentState,
                   isMicEnabled, roomRef, exists, pcs, onEndCalls>>
    /\ UNCHANGED hist
    /\ UNCHANGED rendered

\* The effect runs again because token or livekitUrl changed (api.js 92-223):
\* the cleanup of the previous run, then the body.  propsOk: both props are
\* non-empty.
Effect(propsOk) ==
    /\ exists /\ effectRuns < MaxEffectRuns
    /\ effectRuns' = effectRuns + 1
    /\ isMountedRef' = TRUE
    /\ IF propsOk /\ ~isConnectingRef
       THEN \* a new Room; the previous one, if any, failed to connect
            /\ isConnectingRef' = TRUE
            /\ connectionError' = "null"
            /\ hasCleanup' = TRUE
            /\ dom' = IF hasCleanup THEN <<>> ELSE dom
            /\ rstate' = "connecting"
            /\ connectP' = "pending"
            /\ closing' = FALSE
            /\ subscribed' = {}
            /\ participants' = <<>>
            /\ micPub' = "absent"
            /\ disconnectCalls' = 0
            /\ everReleased' = FALSE
            /\ tornDown' = FALSE
            /\ micInvokedIn' = "never"
       ELSE /\ hasCleanup' = FALSE
            /\ dom' = IF hasCleanup THEN <<>> ELSE dom
            /\ tornDown' = (tornDown \/ hasCleanup)
            /\ IF CleanupDisconnects
               THEN /\ disconnectCalls' = disconnectCalls + 1
                    /\ closing' = TRUE
               ELSE UNCHANGED <<disconnectCalls, closing>>
            /\ UNCHANGED <<isConnectingRef, connectionError, rstate, connectP,
                           subscribed, participants, micPub, everReleased, micInvokedIn>>
    /\ UNCHANGED <<room, transcript, ragSources, isConnected, agentState,
                   isMicEnabled, roomRef, exists, pcs, onEndCalls>>
    /\ UNCHANGED hist
    /\ UNCHANGED rendered

-----------------------------------------------------------------------------
(* Specifications.                                                         *)

\* The session: life cycle, the agent joining and leaving, its audio track
\* and sink, renders, enabling the microphone, teardown and the effect.
Next ==
    \/ Connected
    \/ ConnectResolved
    \/ ConnectRejected
    \/ RoomClosed
    \/ \E drop \in BOOLEAN : Reconnecting(drop)
    \/ Reconnected
    \/ \E matches \in BOOLEAN : ReconnectedResume(matches)
    \/ \E ok \in BOOLEAN : ReconnectedMicDone(ok)
    \/ \E isAgent \in BOOLEAN : ParticipantConnected("agent", isAgent)
    \/ ParticipantDisconnected("agent")
    \/ \E t \in SessionTracks : TrackSubscribed(t)
    \/ \E t \in SessionTracks : TrackUnsubscribed(t)
    \/ Render
    \/ EnableMic
    \/ StartMicResume
    \/ \E ok \in BOOLEAN : StartMicDone(ok)
    \/ EndCall
    \/ Unmount
    \/ \E ok \in BOOLEAN : Effect(ok)

Spec == Init /\ [][Next]_vars

\* The transcript lane alone: nothing else writes transcript.
NextTranscript == \E m \in TranscriptTexts : DataReceived("transcript", m)

SpecTranscript == Init /\ [][NextTranscript]_vars

\* The citations lane alone: nothing else writes ragSources.
NextCitations == \E m \in CitationTexts : DataReceived("rag_sources", m)

SpecCitations == Init /\ [][NextCitations]_vars

\* The two lanes within a session: the join, renders, the microphone being
\* enabled, the Room closing and End Call, without tracks.
NextLanes ==
    \/ \E m \in LaneTexts : DataReceived("transcript", m)
    \/ \E m \in LanePayloads : DataReceived("rag_sources", m)
    \/ Connected
    \/ ConnectResolved
    \/ RoomClosed
    \/ Render
    \/ EnableMic
    \/ StartMicResume
    \/ StartMicDone(TRUE)
    \/ EndCall

SpecLanes == Init /\ [][NextLanes]_vars

\* The remote track of the specification of interruption and recovery.
RecoveryTracks == { t \in Tracks : t.sid = "a1" }

\* Interruption and recovery with the microphone: life cycle, one remote
\* track, enabling and muting the microphone, End Call.
NextRecovery ==
    \/ Connected
    \/ ConnectResolved
    \/ RoomClosed
    \/ \E drop \in BOOLEAN : Reconnecting(drop)
    \/ Reconnected
    \/ \E matches \in BOOLEAN : ReconnectedResume(matches)
    \/ \E ok \in BOOLEAN : ReconnectedMicDone(ok)
    \/ \E t \in RecoveryTracks : TrackSubscribed(t)
    \/ Render
    \/ EnableMic
    \/ StartMicResume
    \/ \E ok \in BOOLEAN : StartMicDone(ok)
    \/ DisableMic
    \/ \E ok \in BOOLEAN : StopMicDone(ok)
    \/ EndCall

SpecRecovery == Init /\ [][NextRecovery]_vars

\* The two lanes and teardown: End Call, unmount and re-runs of the effect.
NextTeardown ==
    \/ \E m \in LaneTexts : DataReceived("transcript", m)
    \/ DataReceived("rag_sources", Batch(Ids(<<"a">>)))
    \/ Connected
    \/ ConnectResolved
    \/ ConnectRejected
    \/ RoomClosed
    \/ EndCall
    \/ Unmount
    \/ \E ok \in BOOLEAN : Effect(ok)

SpecTeardown == Init /\ [][NextTeardown]_vars

\* The citations lane with bodies of other shapes.
NextShapes ==
    \E m \in ShapeTexts : DataReceived("rag_sources", m)

SpecShapes == Init /\ [][NextShapes]_vars

\* Tracks and sinks: every track of the two participants, in either order
\* of joining, with the steps that attach and detach sinks (the recovery,
\* startMic, End Call, the Room closing).  The request for the microphone
\* is refused, so no capture is published and the recovery has no mic step:
\* neither touches the document.
NextTracks ==
    \/ Connected
    \/ ConnectResolved
    \/ RoomClosed
    \/ \E drop \in BOOLEAN : Reconnecting(drop)
    \/ Reconnected
    \/ \E matches \in BOOLEAN : ReconnectedResume(matches)
    \/ \E p \in Identities : \E isAgent \in BOOLEAN : ParticipantConnected(p, isAgent)
    \/ \E p \in Identities : ParticipantDisconnected(p)
    \/ \E t \in Tracks : TrackSubscribed(t)
    \/ \E t \in Tracks : TrackUnsubscribed(t)
    \/ Render
    \/ EnableMic
    \/ StartMicResume
    \/ StartMicDone(FALSE)
    \/ EndCall

SpecTracks == Init /\ [][NextTracks]_vars

\* The topics of the specification of the topics: the two lanes and one that
\* the handler has no branch for.
Topics == {"transcript", "rag_sources", "chat"}

\* The bodies of the specification of the topics: two utterances with
\* different texts and one that repeats the first under another tag; two
\* valid batches and a body that is not JSON.
TopicTranscriptTexts ==
    { <<"U", "S", "E", "R", ":", "a">>,
      <<"A", "G", "E", "N", "T", ":", "b", "\n">>,
      <<"B", "O", "T", ":", "a">> }

TopicPayloads ==
    { Batch(Ids(<<"a">>)), Batch(Ids(<<"b", "a", "b">>)), <<W("hello")>> }

TopicBodies(topic) ==
    IF topic = "transcript" THEN TopicTranscriptTexts
    ELSE IF topic = "rag_sources" THEN TopicPayloads
    ELSE TopicTranscriptTexts \cup TopicPayloads

\* Messages of every topic while the session connects, is connected and
\* reconnects.
NextTopics ==
    \/ \E topic \in Topics : \E m \in TopicBodies(topic) : DataReceived(topic, m)
    \/ Connected
    \/ ConnectResolved
    \/ \E drop \in BOOLEAN : Reconnecting(drop)
    \/ Reconnected
    \/ \E matches \in BOOLEAN : ReconnectedResume(matches)

SpecTopics == Init /\ [][NextTopics]_vars

-----------------------------------------------------------------------------
(* Properties.                                                             *)

\* The audio sinks of an identity: the positions of the document's elements
\* whose id is audio-<identity>.
SinksOf(identity) == { i \in 1..Len(dom) : dom[i].id = identity }

\* C1.  Sink uniqueness: whatever track-subscribed, track-unsubscribed,
\* participant-leave, reconnect-recovery and enableMic events have happened,
\* the document holds at most one audio sink for each participant identity
\* (an attach for an identity that holds one removes the old one first).
SinkUniqueness == \A id \in Identities : Cardinality(SinksOf(id)) <= 1

\* Both audio tracks of the agent are subscribed, so a sink was attached for
\* the identity more than once, and the identity holds a sink.
SinkUniquenessWitness ==
    /\ { t \in Tracks : t.owner = "agent" /\ t.kind = "audio" } \subseteq subscribed
    /\ SinksOf("agent") # {}

\* The normalized text of an utterance, stated without the code's clean():
\* one leading USER:, BOT: or AGENT: tag removed, then the text between the
\* first and the last character that is not white space.
Untagged(s) ==
    IF \E tag \in {TagUSER, TagBOT, TagAGENT} : HasPrefix(s, tag)
    THEN LET tag == CHOOSE tg \in {TagUSER, TagBOT, TagAGENT} : HasPrefix(s, tg)
         IN SubSeq(s, Len(tag) + 1, Len(s))
    ELSE s

Trimmed(s) ==
    LET solid == { i \in 1..Len(s) : s[i] \notin Whitespace } IN
    IF solid = {} THEN <<>>
    ELSE SubSeq(s, CHOOSE i \in solid : \A j \in solid : i <= j,
                   CHOOSE i \in solid : \A j \in solid : i >= j)

Normalized(s) == Trimmed(Untagged(s))

\* The last message was applied on the given lane.
Applied(topic) == lastMsg.topic = topic /\ lastMsg.applied

\* C2.  Transcript dedup: no two transcript entries have the same normalized
\* text, and a transcript message whose normalized text is that of an
\* existing entry (the last one or any other, whatever the speaker tags)
\* leaves the transcript as it was.
TranscriptDedup ==
    /\ \A i, j \in 1..Len(transcript) :
         i # j => Normalized(transcript[i]) # Normalized(transcript[j])
    /\ ( /\ Applied("transcript")
         /\ \E k \in 1..Len(prevLanes[1]) :
              Normalized(prevLanes[1][k]) = Normalized(lastMsg.text) )
       => transcript = prevLanes[1]

\* A message was dropped whose text differs from every entry and whose
\* normalized text is that of an entry that is not the last one.
TranscriptDedupWitness ==
    /\ Applied("transcript")
    /\ Len(transcript) >= 2
    /\ transcript = prevLanes[1]
    /\ \A k \in 1..Len(transcript) : transcript[k] # lastMsg.text
    /\ Normalized(transcript[1]) = Normalized(lastMsg.text)

\* C3.  Citation bound and uniqueness: the citation list has at most 8
\* entries and holds no identifier twice.
CitationBoundUnique ==
    /\ Len(ragSources) <= 8
    /\ \A i, j \in 1..Len(ragSources) : i # j => ragSources[i] # ragSources[j]

\* The list is full and the batch just merged named an identifier twice.
CitationBoundUniqueWitness ==
    /\ Applied("rag_sources")
    /\ Len(ragSources) = 8
    /\ lastMsg.text = Batch(Ids(<<"b", "a", "b">>))
    /\ ragSources # prevLanes[2]

\* The bodies that are valid batches: an object whose sources field is a
\* list of strings.
ValidBatchTexts == { Batch(ids) : ids \in BatchLists }

\* The last message was a valid batch that was merged into the list.
Merged == Applied("rag_sources") /\ lastMsg.text \in ValidBatchTexts

\* The last n elements of a list, and a list without the identifiers of
\* another.
LastN(s, n) == IF Len(s) <= n THEN s ELSE [i \in 1..n |-> s[Len(s) - n + i]]

Without(ids, list) == SelectSeq(ids, LAMBDA x : x \notin Range(list))

NonEmptyIds(ids) == SelectSeq(ids, LAMBDA x : x # <<>>)

\* The list followed by the identifiers that are not in it, each once, in
\* batch order, cut to its last 8 elements.
ExpectedMerge(list, ids) == LastN(list \o Without(FirstOcc(ids, <<>>), list), 8)

NineIds == Ids(<<"a", "b", "c", "d", "e", "f", "g", "h", "i">>)

\* C4.  Citation merge result: merging a valid batch into citation list S
\* yields exactly the last 8 elements of (S followed by the batch's
\* identifiers that are not the empty string and not already in S, each once,
\* in batch order); merging [a,b,c,d,e,f,g,h,i] into an empty list yields
\* [b,c,d,e,f,g,h,i].
CitationMerge ==
    Merged =>
      /\ RagIds(ragSources) =
           ExpectedMerge(RagIds(prevLanes[2]), NonEmptyIds(IdsOf(lastMsg.text)))
      /\ (prevLanes[2] = <<>> /\ lastMsg.text = Batch(NineIds))
           => RagIds(ragSources) = Tail(NineIds)

\* The nine identifiers were merged into an empty list and the first was
\* evicted.
CitationMergeWitness ==
    /\ Merged
    /\ prevLanes[2] = <<>>
    /\ lastMsg.text = Batch(NineIds)
    /\ RagIds(ragSources) = Tail(NineIds)

\* C4 as it was stated: every identifier of the batch that is not in S is
\* appended, the empty string included.
CitationMergeAnyIdentifier ==
    Merged =>
      RagIds(ragSources) = ExpectedMerge(RagIds(prevLanes[2]), IdsOf(lastMsg.text))

\* The identifiers of ids stand in the relative order they have in order.
InOrderOf(ids, order) ==
    \A i, j \in 1..Len(ids) :
       i < j => \E m, n \in 1..Len(order) :
                   m < n /\ order[m] = ids[i] /\ order[n] = ids[j]

\* C5.  Citation order: after any sequence of merged batches the identifiers
\* of the citation list appear in the order of their most recent insertion
\* into the list; that is the order of first appearance in the inbound stream
\* as long as no identifier evicted by the bound of 8 has been delivered
\* again.
CitationInsertionOrder ==
    /\ InOrderOf(RagIds(ragSources), insertOrder)
    /\ insertOrder = seenOrder => InOrderOf(RagIds(ragSources), seenOrder)

\* An evicted identifier was delivered again and the list is full.
CitationInsertionOrderWitness ==
    /\ Merged
    /\ Len(ragSources) = 8
    /\ insertOrder # seenOrder
    /\ ragSources # prevLanes[2]

\* C5 as it was stated: the list is in first-seen order, also after
\* evictions.
CitationFirstSeenOrder == InOrderOf(RagIds(ragSources), seenOrder)

\* C6.  Malformed citation payload: a rag_sources message whose body is not
\* valid JSON, or is JSON without a sources field, is handled to the end and
\* leaves the citation list, the transcript, the connected flag, the error
\* and the mic flag unchanged.
MalformedIgnored ==
    [][\A m \in MalformedTexts :
         DataReceived("rag_sources", m) =>
           UNCHANGED <<ragSources, transcript, isConnected, connectionError,
                       isMicEnabled>>]_vars

\* A malformed body was handled while the view-state was populated.
MalformedIgnoredWitness ==
    /\ Applied("rag_sources")
    /\ lastMsg.text \in MalformedTexts
    /\ ragSources # <<>>
    /\ transcript # <<>>
    /\ isConnected
    /\ isMicEnabled

\* C7.  Idempotent teardown: over any sequence of actions, with End Call
\* clicked while the session connects, is connected or reconnects or after
\* the Room closed by itself, the completion callback onEnd is invoked at
\* most once in total (its first invocation unmounts the component, so no
\* second End Call reaches disconnect).
OnEndAtMostOnce == onEndCalls <= 1

\* End Call was clicked after the Room had closed by itself: onEnd was
\* invoked once, and the only disconnect request found the Room closed.
OnEndAtMostOnceWitness ==
    /\ onEndCalls = 1 /\ ~exists
    /\ everReleased /\ rstate = "disconnected"
    /\ connectP = "done" /\ disconnectCalls = 1

\* C8.  No leaked sinks: once teardown has begun (End Call, the cleanup of
\* the effect, the Room closing by itself) the document holds no audio sink
\* in any later state of that session, also when a continuation that was
\* awaiting at teardown resumes afterwards.
NoLeakedSinks == tornDown => dom = <<>>

\* C9.  Transport released exactly once: disconnect() is never requested a
\* second time of the same Room.
DisconnectAtMostOnce == disconnectCalls <= 1

\* The session states in which the microphone may not be enabled.
NotReadyStates == {"connecting", "reconnecting", "disconnected"}

\* C10.  Mic gating: an invocation of startMic while the Room is connecting,
\* reconnecting or disconnected is rejected: it returns before the body that
\* resumes audio, re-attaches the sinks, turns on the local audio publish
\* and sets the mic flag, so it leaves no run of that body suspended.
MicGating ==
    [][(EnableMic /\ rstate \in NotReadyStates) => pcMic' = pcMic]_vars

\* C11.  Recovery keeps the mic flag: the flag changes only when an
\* enableMic or a mute call completes, when the Room closes or when the mic
\* step of a recovery completes; an interruption (Reconnecting) and the
\* recovery (Reconnected and its continuation) leave it as it was, the mic
\* step of a mounted component is entered only for capture that is flagged
\* enabled with its publication unmuted, and it never clears the flag: capture that was
\* enabled before is flagged enabled once recovery completes with no
\* enableMic call in between, and capture that was disabled is not enabled by
\* recovery.
RecoveryKeepsMicFlag ==
    [][ /\ ( isMicEnabled' # isMicEnabled
               => \/ StartMicDone(TRUE) \/ StopMicDone(TRUE) \/ RoomClosed
                  \/ ReconnectedMicDone(TRUE) )
        /\ ( (\E drop \in BOOLEAN : Reconnecting(drop))
               \/ Reconnected
               \/ (\E matches \in BOOLEAN : ReconnectedResume(matches)) )
             => isMicEnabled' = isMicEnabled
        /\ ( /\ \E matches \in BOOLEAN : ReconnectedResume(matches)
             /\ pcRec'.mic > pcRec.mic
             /\ exists )
             => (isMicEnabled /\ micPub = "unmuted")
        /\ (\E ok \in BOOLEAN : ReconnectedMicDone(ok))
             => (isMicEnabled => isMicEnabled') ]_vars

\* Capture was enabled, the transport was interrupted and has recovered with
\* the publication unmuted; the recovery is at its continuation and no mic
\* call is under way.
RecoveryKeepsMicFlagWitness ==
    /\ pcRec.resume > 0
    /\ rstate = "connected"
    /\ isMicEnabled
    /\ micPub = "unmuted"
    /\ pcMic = NoRuns /\ pcStop = 0

\* C12.  Single live session: a new Room is created only when the guard
\* isConnectingRef is clear, and then no Room of this instance is connecting,
\* connected or reconnecting; a run of the effect (a join request) that finds
\* a Room connecting or connected opens no second transport and sets no
\* error.
SingleLiveSession ==
    /\ [](~isConnectingRef => ~Live)
    /\ [][\A propsOk \in BOOLEAN :
            (Effect(propsOk) /\ Live) =>
               /\ rstate' = rstate
               /\ connectP' = connectP
               /\ disconnectCalls' >= disconnectCalls
               /\ connectionError' = connectionError]_vars

\* The effect ran again while the Room of its first run was connected: it
\* returned at the guard, without a cleanup of its own.
SingleLiveSessionWitness ==
    /\ exists
    /\ effectRuns > 0
    /\ isConnectingRef
    /\ ~hasCleanup
    /\ rstate = "connected"
    /\ connectP = "done"
    /\ roomRef = TheRoom

\* C13.  Terminal transport closure tears down fully: when the Room closes
\* by itself (no disconnect was requested) while the session is connected or
\* reconnecting, every audio sink is removed and the completion callback
\* onEnd is invoked exactly once.
TerminalClosureTearsDown ==
    [][(RoomClosed /\ ~closing /\ isMountedRef /\ exists) =>
          /\ dom' = <<>>
          /\ onEndCalls' = onEndCalls + 1]_vars

\* C14.  No lane mutation after teardown: once teardown has begun (End Call
\* was invoked, the component was unmounted, or the cleanup of the effect
\* ran and no new Room was created since), no step changes the transcript or
\* the citation list, whatever message the Room delivers afterwards.
NoLaneMutationAfterTeardown ==
    [][(tornDown /\ (onEndCalls > 0 \/ ~exists \/ ~hasCleanup)) =>
          UNCHANGED <<transcript, ragSources>>]_vars

\* C15.  Transcript is append-only in arrival order: a transcript message
\* either leaves the transcript as it was or appends itself, once, at the
\* end, and it is appended exactly when its normalized text is that of no
\* entry; entries are never removed, rewritten or reordered, so the
\* transcript is the sequence of first occurrences, by normalized text, of the
\* messages in arrival order.
TranscriptAppendOnly ==
    /\ lastMsg.topic = "none" => transcript = <<>>
    /\ lastMsg.topic = "transcript" =>
         transcript =
           IF /\ lastMsg.applied
              /\ \A k \in 1..Len(prevLanes[1]) :
                   Normalized(prevLanes[1][k]) # Normalized(lastMsg.text)
           THEN Append(prevLanes[1], lastMsg.text)
           ELSE prevLanes[1]

\* A third entry was appended after two others.
TranscriptAppendOnlyWitness ==
    /\ Applied("transcript")
    /\ Len(prevLanes[1]) >= 2
    /\ transcript = Append(prevLanes[1], lastMsg.text)

\* C16.  Recovery precedes re-exposure: in no state is the connected flag
\* true while the recovery of a reconnect (audio-output resume, sink
\* re-creation, mic re-enable) is still pending.
RecoveryBeforeConnected == InFlight(pcRec) > 0 => ~isConnected

\* C17.  Mic flag resynchronized after recovery: when the recovery sequence
\* completes, the mic flag is true exactly if the local publication is there
\* and unmuted; capture that was enabled before the interruption and whose
\* publication is muted or absent afterwards is flagged disabled.
MicFlagResynchronized ==
    [][( \/ (\E matches \in BOOLEAN : ReconnectedResume(matches)) /\ pcRec'.mic = pcRec.mic
         \/ \E ok \in BOOLEAN : ReconnectedMicDone(ok) )
          => (isMicEnabled' <=> micPub' = "unmuted")]_vars

\* C18.  Error propagation policy: the error of the view-state becomes
\* non-null only when the join fails or when the Room closes by itself (a
\* failed enableMic or recovery step never sets it), and the Room closing by
\* itself does set it.
ErrorOnlyOnJoinOrClosure ==
    [][ /\ (connectionError' # connectionError /\ connectionError' # "null")
             => (ConnectRejected \/ RoomClosed)
        /\ (RoomClosed /\ ~closing /\ isMountedRef /\ exists)
             => connectionError' # "null" ]_vars

\* C19.  Join failure is recoverable: when r.connect() rejects, the error is
\* set in the view-state of the mounted component, connected is false and
\* the guard isConnectingRef is released; the next run of the effect with a
\* token and a URL then creates a new Room and starts connecting it.
JoinFailureRecoverable ==
    [][ /\ ConnectRejected =>
             /\ (isMountedRef /\ exists) => connectionError' = "join"
             /\ ~isConnected'
             /\ ~isConnectingRef'
        /\ (Effect(TRUE) /\ ~isConnectingRef) =>
             /\ rstate' = "connecting"
             /\ connectP' = "pending"
             /\ isConnectingRef'
             /\ connectionError' = "null" ]_vars

\* The join of a Room created by a re-run of the effect has failed: the error
\* is set, the guard is released and the component is still mounted.
JoinFailureRecoverableWitness ==
    /\ exists
    /\ effectRuns = 2
    /\ hasCleanup
    /\ connectionError = "join"
    /\ rstate = "disconnected"
    /\ ~isConnectingRef
    /\ ~isConnected

\* C20.  Wire shape of citations: a rag_sources body that is a JSON object
\* whose sources field is not a list of strings (a single string, a number, a
\* list with non-string values) is dropped and leaves the citation list
\* unchanged.
WrongShapeDropped ==
    (lastMsg.topic = "rag_sources" /\ lastMsg.text \in ShapeTexts)
      => ragSources = prevLanes[2]

\* The audio elements of a document that belong to an identity, and those
\* that belong to the others.
ElementsOf(d, identity) == SelectSeq(d, LAMBDA e : e.id = identity)

ElementsOfOthers(d, identity) == SelectSeq(d, LAMBDA e : e.id # identity)

\* The identity holds no sink after the step, and the sinks of the others
\* are what they were.
DetachedOnly(identity) ==
    /\ ElementsOf(dom', identity) = <<>>
    /\ ElementsOfOthers(dom', identity) = ElementsOfOthers(dom, identity)

\* C21.  Detach is idempotent and scoped: a track-unsubscribed or
\* participant-leave event handled by the mounted component leaves the
\* identity without a sink (removing it if present, changing nothing if
\* absent) and neither removes nor changes the sink of any other identity.
DetachScoped ==
    [][ /\ \A t \in Tracks :
             (TrackUnsubscribed(t) /\ isMountedRef) => DetachedOnly(t.owner)
        /\ \A p \in Identities :
             (ParticipantDisconnected(p) /\ isMountedRef) => DetachedOnly(p) ]_vars

\* Without any teardown, the agent holds no sink although one of its audio
\* tracks is subscribed, and the peer holds its sink: a sink of the agent was
\* detached and the peer's was left alone.
DetachScopedWitness ==
    /\ exists /\ isMountedRef
    /\ onEndCalls = 0 /\ effectRuns = 0
    /\ \E t \in subscribed : t.owner = "agent" /\ t.kind = "audio"
    /\ SinksOf("agent") = {}
    /\ SinksOf("peer") # {}

\* What a rag_sources message with the given body makes of a citation list.
CitationsAfter(rag, text) ==
    IF SourceFiles(text).ok THEN RagUpdater(rag, SourceFiles(text).files) ELSE rag

\* What a message makes of the two lanes: its own lane becomes a function of
\* that lane and of the body, the other lane stays.
LanesAfter(topic, text) ==
    << IF topic = "transcript" THEN TranscriptUpdater(transcript, text) ELSE transcript,
       IF topic = "rag_sources" THEN CitationsAfter(ragSources, text) ELSE ragSources >>

\* C22.  Lane independence: a message handled before teardown makes of its
\* own lane what the lane's updater computes from that lane and the body
\* alone, whatever the connection state (connecting, connected,
\* reconnecting); a transcript message leaves the citation list as it was, a
\* rag_sources message leaves the transcript as it was, and a message of any
\* other topic changes nothing of the view state, the references or the
\* document.  Steps of the two lanes therefore commute, so every
\* interleaving that keeps each lane's order ends with the same lanes.
LaneIndependence ==
    [][ \A topic \in Topics : \A m \in TopicBodies(topic) :
          (DataReceived(topic, m) /\ isMountedRef /\ exists)
            => /\ <<transcript', ragSources'>> = LanesAfter(topic, m)
               /\ UNCHANGED <<room, isConnected, agentState, isMicEnabled,
                              connectionError, refs, dom>>
               /\ (topic \notin {"transcript", "rag_sources"})
                     => UNCHANGED <<transcript, ragSources>> ]_vars

\* Both lanes were filled while the session was still connecting, and the
\* message handled last had another topic and left them as they were.
LaneIndependenceWitness ==
    /\ rstate = "connecting" /\ ~isConnected
    /\ exists /\ isMountedRef
    /\ Len(transcript) = 2 /\ Len(ragSources) = 2
    /\ lastMsg.topic = "chat" /\ lastMsg.applied
    /\ prevLanes = <<transcript, ragSources>>

\* C23.  Capture allowed once connected: from the handling of the Connected
\* event (isConnected true) until the next interruption or teardown, a call
\* of startMic is not ignored (it goes on to its asynchronous steps), also
\* between the Connected event and the continuation of the join promise;
\* and when setMicrophoneEnabled(true) resolves, the local audio publish is
\* on and the mic flag is set.
CaptureAllowedOnceConnected ==
    [][ /\ ( /\ EnableMic
             /\ isConnected /\ rstate = "connected" /\ ~closing
             /\ exists /\ isMountedRef )
          => pcMic'.resume = pcMic.resume + 1
        /\ (StartMicDone(TRUE) /\ exists /\ isMountedRef)
          => (micPub' = "unmuted" /\ isMicEnabled') ]_vars

\* The identity has a subscribed audio track.
HasAudioProducer(identity) ==
    \E t \in subscribed : t.owner = identity /\ t.kind = "audio"

\* C24.  Sink present while producer subscribed: in a mounted component
\* whose session has not been torn down, every identity with a subscribed
\* audio track holds a sink, so unsubscribing one track of an identity (its
\* video track, or one of its two audio tracks) leaves the sink of another
\* audio track of that identity that is still subscribed; and subscribing to
\* a track that is not audio creates no sink.
SinkWhileSubscribed ==
    /\ [](( /\ exists /\ isMountedRef /\ ~tornDown
            /\ rstate \in {"connected", "reconnecting"} )
          => \A p \in Identities : HasAudioProducer(p) => SinksOf(p) # {})
    /\ [][ \A t \in Tracks :
             (TrackSubscribed(t) /\ t.kind # "audio") => dom' = dom ]_vars

\* C25.  Sticky join guard: isConnectingRef is released only by the catch
\* continuation of a failed r.connect(); a run of the effect that finds the
\* guard set (the join succeeded or is still pending) runs the cleanup of the
\* old session, sets isMountedRef back to true and returns without creating
\* a Room and without registering a cleanup; as long as the guard stays set
\* the instance then has no live session: the old Room is disconnected or
\* has been asked to disconnect.
StickyJoinGuard ==
    /\ []((exists /\ isConnectingRef /\ ~hasCleanup)
            => (closing \/ rstate = "disconnected"))
    /\ [][ /\ (isConnectingRef /\ ~isConnectingRef') => ConnectRejected
           /\ \A propsOk \in BOOLEAN :
                (Effect(propsOk) /\ isConnectingRef)
                  => /\ isConnectingRef' /\ isMountedRef' /\ ~hasCleanup'
                     /\ rstate' = rstate /\ connectP' = connectP
                     /\ (closing' \/ rstate' = "disconnected") ]_vars

\* After a join that succeeded the effect ran twice more: the old Room has
\* closed, the guard is still set, the mounted flag is true and the
\* component is mounted without a session.
StickyJoinGuardWitness ==
    /\ exists /\ isMountedRef
    /\ effectRuns = 2
    /\ isConnectingRef /\ ~hasCleanup
    /\ roomRef = TheRoom
    /\ rstate = "disconnected"
    /\ onEndCalls = 0

\* The session of the mounted component has ended: its Room has closed.
\* (End Call unmounts the component, whose view state is then gone.)
SessionEnded ==
    /\ exists
    /\ everReleased /\ rstate = "disconnected"

\* C26.  Mic flag off after terminal disconnect: once the Room has closed or
\* End Call has run, the mic flag is false in every later state of that
\* session, also when a startMic call or a recovery was awaiting one of its
\* asynchronous steps at that moment and resumes afterwards.
MicOffAfterDisconnect == SessionEnded => ~isMicEnabled

=============================================================================
